---- MODULE Spec2Model ----
(***************************************************************************)
(* Model of ska_ost_sim_low_station_beam.LowStation: construction of a     *)
(* full station or substation from the per-station coordinate table, and   *)
(* the geometric queries over the constructed station.                     *)
(*                                                                         *)
(* Strings that the code inspects character by character (LFAA names,      *)
(* selection strings, query name lists) are sequences of one-character     *)
(* strings; "A1" abbreviates a catalogue name such as "SB01-01".           *)
(* Lengths are integers (metres); sqrt(d2) < r is decided on the squares.  *)
(***************************************************************************)
EXTENDS Integers, Sequences, FiniteSets, TLC

VARIABLES tables, filters, phase, station, op, err, io,
          names_out, coords_out,
          tpc, targs, tstation, terr, seen, filters0

vars == <<tables, filters, phase, station, op, err, io,
          names_out, coords_out, tpc, targs, tstation, terr, seen, filters0>>

seqVars == <<phase, station, op, err, io, names_out, coords_out>>
concVars == <<tpc, targs, tstation, terr, seen, filters0>>

(* ---------------- bounds ---------------- *)
MaxPatterns == 2
MaxDist == 2
MaxRequest == 2

(* ---------------- strings ---------------- *)
Ord(c) ==
  CASE c = "*" -> 42 [] c = "," -> 44 [] c = "-" -> 45 [] c = "." -> 46
    [] c = "1" -> 49 [] c = "2" -> 50 [] c = "?" -> 63
    [] c = "A" -> 65 [] c = "B" -> 66 [] c = "C" -> 67

RECURSIVE LexLess(_, _)
LexLess(a, b) ==
  IF a = <<>> THEN b # <<>>
  ELSE IF b = <<>> THEN FALSE
  ELSE IF Head(a) = Head(b) THEN LexLess(Tail(a), Tail(b))
  ELSE Ord(Head(a)) < Ord(Head(b))

RECURSIVE SortedList(_)
SortedList(S) ==
  IF S = {} THEN <<>>
  ELSE LET m == CHOOSE x \in S : \A y \in S : x = y \/ LexLess(x, y)
       IN <<m>> \o SortedList(S \ {m})

RECURSIVE Split(_)
Split(s) ==
  IF \A i \in 1..Len(s) : s[i] # "," THEN <<s>>
  ELSE LET i == CHOOSE k \in 1..Len(s) :
                   s[k] = "," /\ \A j \in 1..(k-1) : s[j] # ","
       IN <<SubSeq(s, 1, i-1)>> \o Split(SubSeq(s, i+1, Len(s)))

RECURSIVE Join(_)
Join(l) ==
  IF l = <<>> THEN <<>>
  ELSE IF Len(l) = 1 THEN l[1]
  ELSE l[1] \o <<",">> \o Join(Tail(l))

Range(f) == {f[i] : i \in DOMAIN f}

(* fnmatch: '*' any run, '?' any one character, the rest literal *)
RECURSIVE GlobMatch(_, _)
GlobMatch(p, s) ==
  IF p = <<>> THEN s = <<>>
  ELSE IF Head(p) = "*"
       THEN GlobMatch(Tail(p), s) \/ (s # <<>> /\ GlobMatch(p, Tail(s)))
  ELSE IF s = <<>> THEN FALSE
  ELSE IF Head(p) = "?" THEN GlobMatch(Tail(p), Tail(s))
  ELSE Head(p) = Head(s) /\ GlobMatch(Tail(p), Tail(s))

fnmatch_filter(names, pattern) ==
  SelectSeq(names, LAMBDA n : GlobMatch(pattern, n))

(* re.fullmatch: '.' any one character, the rest literal *)
RECURSIVE str_fullmatch(_, _)
str_fullmatch(s, pat) ==
  IF pat = <<>> THEN s = <<>>
  ELSE IF s = <<>> THEN FALSE
  ELSE (Head(pat) = "." \/ Head(pat) = Head(s))
       /\ str_fullmatch(Tail(s), Tail(pat))

(* ---------------- the array configuration ---------------- *)
STATION_NAMES == {"S8-1", "S8-6"}
VALID_STATION_TYPES == STATION_NAMES \cup {"substation"}

get_low_station_rotation(name) ==
  CASE name = "S8-1" -> 251 [] name = "S8-6" -> 193

(* the reference point with the sines and cosines of its longitude/latitude *)
get_low_station_coordinates(name) ==
  CASE name = "S8-1" -> [x |-> 100, y |-> 0, z |-> 0,
                         sin_lon |-> 0, cos_lon |-> 1, sin_lat |-> 0, cos_lat |-> 1]
    [] name = "S8-6" -> [x |-> 0, y |-> 100, z |-> 0,
                         sin_lon |-> 1, cos_lon |-> 0, sin_lat |-> 0, cos_lat |-> 1]

ecef_to_enu_one(loc, p) ==
  LET dx == p[1] - loc.x
      dy == p[2] - loc.y
      dz == p[3] - loc.z
  IN << (0 - loc.sin_lon) * dx + loc.cos_lon * dy,
        (0 - loc.sin_lat) * loc.cos_lon * dx - loc.sin_lat * loc.sin_lon * dy
           + loc.cos_lat * dz,
        loc.cos_lat * loc.cos_lon * dx + loc.cos_lat * loc.sin_lon * dy
           + loc.sin_lat * dz >>

ecef_to_enu(loc, xyz) == [i \in 1..Len(xyz) |-> ecef_to_enu_one(loc, xyz[i])]

(* ---------------- the coordinate tables ---------------- *)
Row(n, x, y, z) == [name |-> n, x |-> x, y |-> y, z |-> z]

A1 == <<"A", "1">>
A2 == <<"A", "2">>
B1 == <<"B", "1">>
B2 == <<"B", "2">>

(* rows of S8-1 (longitude 0): ECEF = (100 + up, east, north) *)
Layouts ==
  { [n \in {A1, A2, B1} |->
       CASE n = A1 -> Row(A1, 102, 0, 0) [] n = A2 -> Row(A2, 100, 1, 0)
         [] n = B1 -> Row(B1, 100, 1, 1)],
    [n \in {A1, A2, B1} |->
       CASE n = A1 -> Row(A1, 100, 2, 0) [] n = A2 -> Row(A2, 100, 0, 0)
         [] n = B1 -> Row(B1, 101, 0, -2)],
    [n \in {A1, A2, B1} |->
       CASE n = A1 -> Row(A1, 100, -2, 0) [] n = A2 -> Row(A2, 100, 1, 0)
         [] n = B1 -> Row(B1, 103, 0, 1)] }

Orders == {o \in [1..3 -> {A1, A2, B1}] : \A i, j \in 1..3 : o[i] = o[j] => i = j}

(* rows of S8-6 (longitude 90): ECEF = (-east, 100 + up, north) *)
TableS86 == << Row(B2, 0, 100, 1), Row(A1, -1, 101, 0) >>

Tables ==
  { [s \in STATION_NAMES |->
       IF s = "S8-1" THEN [i \in 1..3 |-> l[o[i]]] ELSE TableS86]
    : o \in Orders, l \in Layouts }

read_csv(tbls, name) == tbls[name]

ColumnNames(rows) == [i \in 1..Len(rows) |-> rows[i].name]

(* ---------------- warnings (process-wide filter list) ---------------- *)
IgnoreAstropy == <<"ignore", "AstropyDeprecationWarning">>

FilterLists == { <<>>, << <<"default", "DeprecationWarning">> >>,
                 << IgnoreAstropy, <<"error", "UserWarning">> >> }

filterwarnings(fl, item) ==
  <<item>> \o SelectSeq(fl, LAMBDA f : f # item)

resetwarnings(fl) == <<>>

(* ---------------- errors (all raised as ValueError) ---------------- *)
NoErr == [kind |-> "None", arg |-> <<>>]
Raise(kind, arg) == [kind |-> kind, arg |-> arg]

(* ---------------- LowStation.__init__ ---------------- *)
NoStation ==
  [station_type |-> "None", station_name |-> "None", parent_station |-> "None",
   station_rot_angle |-> 0, coordinates |-> <<>>, lfaa_names |-> <<>>,
   lfaa_xyz |-> <<>>, lfaa_enu |-> <<>>]

RECURSIVE MatchLoop(_, _, _)
MatchLoop(all_lfaa, patterns, acc) ==
  IF patterns = <<>> THEN [err |-> NoErr, list |-> acc]
  ELSE LET matched_lfaa == fnmatch_filter(all_lfaa, Head(patterns))
       IN IF matched_lfaa = <<>>
          THEN [err |-> Raise("EmptySelection", Head(patterns)), list |-> <<>>]
          ELSE MatchLoop(all_lfaa, Tail(patterns), acc \o matched_lfaa)

(* mutant: a pattern that matches nothing is skipped; only an empty total fails *)
match_patterns_skip(all_lfaa, patterns) ==
  LET some == SelectSeq(patterns, LAMBDA q : fnmatch_filter(all_lfaa, q) # <<>>)
  IN IF some = <<>>
     THEN [err |-> Raise("EmptySelection", patterns[1]), list |-> <<>>]
     ELSE MatchLoop(all_lfaa, some, <<>>)

(* mutant: the loop stops after the first pattern *)
match_patterns_first(all_lfaa, patterns) ==
  MatchLoop(all_lfaa, <<Head(patterns)>>, <<>>)

(* mutant: requested_lfaa = matched_lfaa, so the last pattern wins *)
match_patterns_last(all_lfaa, patterns) ==
  LET r == MatchLoop(all_lfaa, patterns, <<>>)
  IN IF r.err.kind # "None" THEN r
     ELSE [err |-> NoErr, list |-> fnmatch_filter(all_lfaa, patterns[Len(patterns)])]

match_patterns(all_lfaa, patterns) == MatchLoop(all_lfaa, patterns, <<>>)

(* lines 63-76: the requested names, deduplicated and sorted *)
requested_lfaa(all_lfaa, lfaa_list) ==
  LET r == IF lfaa_list.given
           THEN match_patterns(all_lfaa, Split(lfaa_list.text))
           ELSE [err |-> NoErr, list |-> all_lfaa]
  IN [err |-> r.err, list |-> SortedList(Range(r.list))]

(* mutant: the rows are taken in the order of the sorted requested list *)
retain_rows_sorted(all_coordinates, requested) ==
  [i \in 1..Len(requested) |->
     CHOOSE row \in Range(all_coordinates) : row.name = requested[i]]

(* lines 78-80: boolean mask over the table, which keeps the table's row order *)
retain_rows(all_coordinates, requested) ==
  SelectSeq(all_coordinates, LAMBDA row : row.name \in Range(requested))

(* lines 94-113 *)
build_station(stype, sname, parent, rows) ==
  LET xyz == [i \in 1..Len(rows) |-> <<rows[i].x, rows[i].y, rows[i].z>>]
  IN [station_type |-> stype, station_name |-> sname, parent_station |-> parent,
      station_rot_angle |-> get_low_station_rotation(parent),
      coordinates |-> rows, lfaa_names |-> ColumnNames(rows),
      lfaa_xyz |-> xyz,
      lfaa_enu |-> ecef_to_enu(get_low_station_coordinates(parent), xyz)]

Failure(e, iolog, fl) == [err |-> e, station |-> NoStation, io |-> iolog, filters |-> fl]

(* The whole constructor.  lib_raises: whether the array-configuration     *)
(* library refuses a station name it does not know; the coordinate file of  *)
(* an unknown station does not exist either way.                            *)
LowStation_init(a, tbls, fl, lib_raises) ==
  IF a.station_type \notin VALID_STATION_TYPES
  THEN Failure(Raise("UnknownStation", a.station_type), <<>>, fl)
  ELSE
    LET parent == IF a.station_type = "substation" THEN a.parent_station
                  ELSE a.station_type
        sname  == IF a.station_type = "substation" THEN a.station_name
                  ELSE a.station_type
        io1 == << <<"get_low_station_rotation", parent>> >>
        io2 == io1 \o << <<"read_csv", parent>> >>
        io3 == io2 \o << <<"get_low_station_coordinates", parent>> >>
    IN IF parent \notin STATION_NAMES
       THEN IF lib_raises
            THEN Failure(Raise("LibraryError", parent), io1, fl)
            ELSE Failure(Raise("FileNotFoundError", parent), io2, fl)
       ELSE
         LET all_coordinates == read_csv(tbls, parent)
             req == requested_lfaa(ColumnNames(all_coordinates), a.lfaa_list)
             rows == IF a.station_type = "substation"
                     THEN retain_rows(all_coordinates, req.list)
                     ELSE all_coordinates
         IN IF a.station_type = "substation" /\ req.err.kind # "None"
            THEN Failure(req.err, io2, fl)
            ELSE [err |-> NoErr,
                  station |-> build_station(a.station_type, sname, parent, rows),
                  io |-> io3,
                  filters |-> resetwarnings(filterwarnings(fl, IgnoreAstropy))]

(* ---------------- constructor inputs ---------------- *)
Patterns == { A1, B1, <<"A", "*">>, <<"?", "1">>, <<"C", "1">>, <<>> }

PatternLists == UNION { [1..n -> Patterns] : n \in 1..MaxPatterns }

LfaaLists ==
  { [given |-> FALSE, text |-> <<>>] }
    \cup { [given |-> TRUE, text |-> Join(l)] : l \in PatternLists }

ShortLists == { l \in LfaaLists : \A i \in 1..Len(l.text) : l.text[i] # "," }

(* lists of several patterns are given where the constructor reads them: to a *)
(* substation of a known parent                                               *)
InitArgs ==
  { [station_type |-> t, station_name |-> "None", parent_station |-> "None",
     lfaa_list |-> l] : t \in {"S8-1", "S8-6", "B0"}, l \in ShortLists }
    \cup
  { [station_type |-> "substation", station_name |-> "sub", parent_station |-> p,
     lfaa_list |-> l] : p \in {"B0", "None"}, l \in ShortLists }
    \cup
  { [station_type |-> "substation", station_name |-> "sub", parent_station |-> p,
     lfaa_list |-> l] : p \in STATION_NAMES, l \in LfaaLists }

(* ---------------- distances ---------------- *)
Bare(v) == [quantity |-> FALSE, value |-> v, unit |-> ""]
Quantity(v, u) == [quantity |-> TRUE, value |-> v, unit |-> u]

is_equivalent_to_m(u) == u \in {"m", "km"}

to_m(v, u) == IF u = "km" THEN 1000 * v ELSE v

(* lines 134-140 and 167-173 *)
distance_in_m(distance) ==
  IF distance.quantity
  THEN IF ~ is_equivalent_to_m(distance.unit)
       THEN [err |-> Raise("IncompatibleUnit", <<>>), value |-> 0]
       ELSE [err |-> NoErr, value |-> to_m(distance.value, distance.unit)]
  ELSE [err |-> NoErr, value |-> distance.value]

(* sqrt(d2) < r and sqrt(d2) > r for an integer square d2 and integer r *)
SqrtLess(d2, r) == r > 0 /\ d2 < r * r
SqrtGreater(d2, r) == r < 0 \/ d2 > r * r

Planar2(p, q) == (p[1] - q[1]) * (p[1] - q[1]) + (p[2] - q[2]) * (p[2] - q[2])

MaskNames(st, mask) ==
  LET idx == SelectSeq([i \in 1..Len(st.lfaa_names) |-> i], LAMBDA i : mask[i])
  IN Join([k \in 1..Len(idx) |-> st.lfaa_names[idx[k]]])

(* mutant: the inverted filter keeps the boundary (>=) *)
filter_lfaa_by_distance_ge(st, distance, invert) ==
  LET d == distance_in_m(distance)
      distance_from_centre(i) == Planar2(st.lfaa_enu[i], <<0, 0>>)
  IN IF d.err.kind # "None" THEN [err |-> d.err, out |-> <<>>]
     ELSE IF invert
     THEN [err |-> NoErr,
           out |-> MaskNames(st, [i \in 1..Len(st.lfaa_names) |-> ~ SqrtLess(distance_from_centre(i), d.value)])]
     ELSE [err |-> NoErr,
           out |-> MaskNames(st, [i \in 1..Len(st.lfaa_names) |-> SqrtLess(distance_from_centre(i), d.value)])]

(* ---------------- LowStation.filter_lfaa_by_distance ---------------- *)
filter_lfaa_by_distance(st, distance, invert) ==
  LET d == distance_in_m(distance)
      distance_from_centre(i) == Planar2(st.lfaa_enu[i], <<0, 0>>)
  IN IF d.err.kind # "None" THEN [err |-> d.err, out |-> <<>>]
     ELSE IF invert
     THEN [err |-> NoErr,
           out |-> MaskNames(st, [i \in 1..Len(st.lfaa_names) |-> SqrtGreater(distance_from_centre(i), d.value)])]
     ELSE [err |-> NoErr,
           out |-> MaskNames(st, [i \in 1..Len(st.lfaa_names) |-> SqrtLess(distance_from_centre(i), d.value)])]

IndexOf(names, n) ==
  CHOOSE i \in 1..Len(names) : names[i] = n /\ \A j \in 1..(i-1) : names[j] # n

(* mutant: the boundary counts as a neighbour (<=) *)
get_neighbour_lfaa_le(st, ref_lfaa, distance) ==
  LET d == distance_in_m(distance)
  IN IF d.err.kind # "None" THEN [err |-> d.err, out |-> <<>>]
     ELSE IF ref_lfaa \notin Range(st.lfaa_names)
     THEN [err |-> Raise("UnknownAntenna", ref_lfaa), out |-> <<>>]
     ELSE LET ref_coords == st.lfaa_enu[IndexOf(st.lfaa_names, ref_lfaa)]
          IN [err |-> NoErr,
              out |-> MaskNames(st, [i \in 1..Len(st.lfaa_names) |->
                        ~ SqrtGreater(Planar2(st.lfaa_enu[i], ref_coords), d.value)])]

(* mutant: the reference is looked up before the unit is checked *)
get_neighbour_lfaa_lookup_first(st, ref_lfaa, distance) ==
  LET d == distance_in_m(distance)
  IN IF ref_lfaa \notin Range(st.lfaa_names)
     THEN [err |-> Raise("UnknownAntenna", ref_lfaa), out |-> <<>>]
     ELSE IF d.err.kind # "None" THEN [err |-> d.err, out |-> <<>>]
     ELSE LET ref_coords == st.lfaa_enu[IndexOf(st.lfaa_names, ref_lfaa)]
          IN [err |-> NoErr,
              out |-> MaskNames(st, [i \in 1..Len(st.lfaa_names) |->
                        SqrtLess(Planar2(st.lfaa_enu[i], ref_coords), d.value)])]

(* ---------------- LowStation.get_neighbour_lfaa ---------------- *)
get_neighbour_lfaa(st, ref_lfaa, distance) ==
  LET d == distance_in_m(distance)
  IN IF d.err.kind # "None" THEN [err |-> d.err, out |-> <<>>]
     ELSE IF ref_lfaa \notin Range(st.lfaa_names)
     THEN [err |-> Raise("UnknownAntenna", ref_lfaa), out |-> <<>>]
     ELSE LET index == IndexOf(st.lfaa_names, ref_lfaa)
              ref_coords == st.lfaa_enu[index]
              distance_from_ref(i) == Planar2(st.lfaa_enu[i], ref_coords)
          IN [err |-> NoErr,
              out |-> MaskNames(st, [i \in 1..Len(st.lfaa_names) |-> SqrtLess(distance_from_ref(i), d.value)])]

(* ---------------- LowStation.get_lfaa_coordinates ---------------- *)
RECURSIVE CoordLoop(_, _, _)
CoordLoop(st, requested, acc) ==
  IF requested = <<>> THEN [err |-> NoErr, out |-> acc]
  ELSE LET lfaa_name == Head(requested)
           mask == SelectSeq(st.coordinates,
                             LAMBDA row : str_fullmatch(row.name, lfaa_name))
       IN IF mask = <<>>
          THEN [err |-> Raise("UnknownAntenna", lfaa_name), out |-> <<>>]
          ELSE CoordLoop(st, Tail(requested),
                 Append(acc, [i \in 1..Len(mask) |-> <<mask[i].x, mask[i].y, mask[i].z>>]))

get_lfaa_coordinates(st, lfaa_names) == CoordLoop(st, Split(lfaa_names), <<>>)

(* ---------------- query inputs ---------------- *)
Distances ==
  { Bare(v) : v \in (0 - 1)..MaxDist }
    \cup { Quantity(v, u) : v \in 1..MaxDist, u \in {"m", "km", "s"} }

RefNames == { A1, A2, B1, <<"C", "1">> }

RequestNames == { A2, B1, <<".", "1">>, <<"C", "1">> }

Requests == { Join(l) : l \in UNION { [1..n -> RequestNames] : n \in 1..MaxRequest } }

(* ---------------- sequential specification ---------------- *)
Idle == [name |-> "idle"]

NoThreads ==
  /\ tpc = <<>> /\ targs = <<>> /\ tstation = <<>> /\ terr = <<>>
  /\ seen = <<>> /\ filters0 = <<>>

Init ==
  /\ tables \in Tables
  /\ filters \in FilterLists
  /\ phase = "Uninitialized"
  /\ station = NoStation
  /\ op = Idle
  /\ err = NoErr
  /\ io = <<>>
  /\ names_out = <<>>
  /\ coords_out = <<>>
  /\ NoThreads

Construct ==
  \E a \in InitArgs, lib_raises \in BOOLEAN :
    LET r == LowStation_init(a, tables, filters, lib_raises)
    IN /\ phase = "Uninitialized"
       /\ op = Idle
       /\ op' = [name |-> "__init__", args |-> a]
       /\ phase' = IF r.err.kind = "None" THEN "Loaded" ELSE "Failed"
       /\ station' = r.station
       /\ err' = r.err
       /\ io' = r.io
       /\ filters' = r.filters
       /\ UNCHANGED <<tables, names_out, coords_out>>
       /\ UNCHANGED concVars

FilterByDistance ==
  \E distance \in Distances, invert \in BOOLEAN :
    LET r == filter_lfaa_by_distance(station, distance, invert)
    IN /\ phase = "Loaded"
       /\ op = Idle
       /\ op' = [name |-> "filter_lfaa_by_distance", distance |-> distance,
                 invert |-> invert]
       /\ err' = r.err
       /\ names_out' = r.out
       /\ UNCHANGED <<tables, filters, phase, station, io, coords_out>>
       /\ UNCHANGED concVars

GetNeighbour ==
  \E ref_lfaa \in RefNames, distance \in Distances :
    LET r == get_neighbour_lfaa(station, ref_lfaa, distance)
    IN /\ phase = "Loaded"
       /\ op = Idle
       /\ op' = [name |-> "get_neighbour_lfaa", ref_lfaa |-> ref_lfaa,
                 distance |-> distance]
       /\ err' = r.err
       /\ names_out' = r.out
       /\ UNCHANGED <<tables, filters, phase, station, io, coords_out>>
       /\ UNCHANGED concVars

GetCoordinates ==
  \E lfaa_names \in Requests :
    LET r == get_lfaa_coordinates(station, lfaa_names)
    IN /\ phase = "Loaded"
       /\ op = Idle
       /\ op' = [name |-> "get_lfaa_coordinates", lfaa_names |-> lfaa_names]
       /\ err' = r.err
       /\ coords_out' = r.out
       /\ UNCHANGED <<tables, filters, phase, station, io, names_out>>
       /\ UNCHANGED concVars

(* the call has returned (or raised) and the caller has taken the outcome *)
Return ==
  /\ op # Idle
  /\ op' = Idle
  /\ err' = NoErr
  /\ io' = <<>>
  /\ names_out' = <<>>
  /\ coords_out' = <<>>
  /\ UNCHANGED <<tables, filters, phase, station>>
  /\ UNCHANGED concVars

Next == Construct \/ FilterByDistance \/ GetNeighbour \/ GetCoordinates \/ Return

Spec == Init /\ [][Next]_vars

(* ---------------- concurrent construction ---------------- *)
(* Two threads, each running LowStation.__init__; a step is atomic, and     *)
(* only the warnings calls touch state that the threads share.              *)
Threads == {1, 2}

ConcArgs ==
  { a \in InitArgs :
      \/ a.station_type \in {"S8-1", "B0"} /\ ~ a.lfaa_list.given
      \/ /\ a.station_type = "substation"
         /\ a.parent_station = "S8-1"
         /\ (a.lfaa_list.given => a.lfaa_list.text \in { <<"A", "*">>, <<"C", "1">> }) }

InitConc ==
  /\ tables \in Tables
  /\ filters \in FilterLists
  /\ filters0 = filters
  /\ targs \in [Threads -> ConcArgs]
  /\ tpc = [t \in Threads |-> "check"]
  /\ tstation = [t \in Threads |-> NoStation]
  /\ terr = [t \in Threads |-> NoErr]
  /\ seen = [t \in Threads |-> <<>>]
  /\ phase = "Uninitialized"
  /\ station = NoStation
  /\ op = Idle
  /\ err = NoErr
  /\ io = <<>>
  /\ names_out = <<>>
  /\ coords_out = <<>>

(* lines 45-48 *)
T_Check(t) ==
  /\ tpc[t] = "check"
  /\ IF targs[t].station_type \notin VALID_STATION_TYPES
     THEN /\ tpc' = [tpc EXCEPT ![t] = "failed"]
          /\ terr' = [terr EXCEPT ![t] = Raise("UnknownStation", targs[t].station_type)]
     ELSE /\ tpc' = [tpc EXCEPT ![t] = "load"]
          /\ terr' = terr
  /\ UNCHANGED <<tables, filters, filters0, targs, tstation, seen>>
  /\ UNCHANGED seqVars

(* lines 50-107: thread-local; lfaa_enu is not computed yet *)
T_Load(t) ==
  /\ tpc[t] = "load"
  /\ \E lib_raises \in BOOLEAN :
       LET r == LowStation_init(targs[t], tables, filters, lib_raises)
       IN IF r.err.kind # "None"
          THEN /\ tpc' = [tpc EXCEPT ![t] = "failed"]
               /\ terr' = [terr EXCEPT ![t] = r.err]
               /\ tstation' = tstation
          ELSE /\ tpc' = [tpc EXCEPT ![t] = "filterwarnings"]
               /\ terr' = terr
               /\ tstation' = [tstation EXCEPT ![t] = [r.station EXCEPT !.lfaa_enu = <<>>]]
  /\ UNCHANGED <<tables, filters, filters0, targs, seen>>
  /\ UNCHANGED seqVars

(* line 109 *)
T_FilterWarnings(t) ==
  /\ tpc[t] = "filterwarnings"
  /\ filters' = filterwarnings(filters, IgnoreAstropy)
  /\ tpc' = [tpc EXCEPT ![t] = "ecef_to_enu"]
  /\ UNCHANGED <<tables, filters0, targs, tstation, terr, seen>>
  /\ UNCHANGED seqVars

(* lines 110-113; seen records the filter list in force during the call *)
T_EcefToEnu(t) ==
  /\ tpc[t] = "ecef_to_enu"
  /\ seen' = [seen EXCEPT ![t] = filters]
  /\ tstation' = [tstation EXCEPT ![t].lfaa_enu =
                    ecef_to_enu(get_low_station_coordinates(tstation[t].parent_station),
                                tstation[t].lfaa_xyz)]
  /\ tpc' = [tpc EXCEPT ![t] = "resetwarnings"]
  /\ UNCHANGED <<tables, filters, filters0, targs, terr>>
  /\ UNCHANGED seqVars

(* line 114 *)
T_ResetWarnings(t) ==
  /\ tpc[t] = "resetwarnings"
  /\ filters' = resetwarnings(filters)
  /\ tpc' = [tpc EXCEPT ![t] = "done"]
  /\ UNCHANGED <<tables, filters0, targs, tstation, terr, seen>>
  /\ UNCHANGED seqVars

NextConc ==
  \E t \in Threads :
    T_Check(t) \/ T_Load(t) \/ T_FilterWarnings(t) \/ T_EcefToEnu(t) \/ T_ResetWarnings(t)

SpecConc == InitConc /\ [][NextConc]_vars

(* ======================= properties ======================= *)
IsInit == op.name = "__init__"
IsSub(a) == a.station_type = "substation"
Canonical(a) == IF IsSub(a) THEN a.parent_station ELSE a.station_type
TableNames(name) == ColumnNames(tables[name])
NamesIn(out) == IF out = <<>> THEN {} ELSE Range(Split(out))
LengthOk(distance) == ~ distance.quantity \/ distance.unit \in {"m", "km"}
Metres(distance) == IF distance.unit = "km" THEN 1000 * distance.value ELSE distance.value
MatchesNothing(p, names) == \A i \in 1..Len(names) : ~ GlobMatch(p, names[i])
InOrderOf(names, S) == SelectSeq(names, LAMBDA n : n \in S)

(* C1: construction with a canonical name (own name of a Full station, parent
   name of a Sub station) outside the valid station names fails with
   UnknownStation before any reference lookup or table read is attempted. *)
C1_InvalidNameFailsFirst ==
  (IsInit /\ Canonical(op.args) \notin STATION_NAMES)
    => (phase = "Failed" /\ err.kind = "UnknownStation" /\ io = <<>>)

(* C2: a Sub station whose pattern list holds a pattern matching no name of
   the parent's table is never built: construction fails with EmptySelection
   naming such a pattern, wherever it stands in the list. *)
C2_EmptyPatternFails ==
  (/\ IsInit /\ IsSub(op.args) /\ op.args.parent_station \in STATION_NAMES
   /\ op.args.lfaa_list.given
   /\ \E q \in Range(Split(op.args.lfaa_list.text)) :
        MatchesNothing(q, TableNames(op.args.parent_station)))
    => /\ phase = "Failed"
       /\ station = NoStation
       /\ err.kind = "EmptySelection"
       /\ err.arg \in Range(Split(op.args.lfaa_list.text))
       /\ MatchesNothing(err.arg, TableNames(op.args.parent_station))

C2_Witness ==
  /\ IsInit /\ IsSub(op.args) /\ op.args.parent_station = "S8-1"
  /\ op.args.lfaa_list.given
  /\ op.args.lfaa_list.text = Join(<<A1, <<"C", "1">> >>)
  /\ phase = "Failed" /\ err = Raise("EmptySelection", <<"C", "1">>)

(* C3: after a successful construction the members are the whole table for a
   Full station and for a Sub station without pattern list, and exactly the
   table names matched by at least one pattern otherwise; every name occurs
   once, members are names of the parent table, and there is one local
   coordinate per member. *)
C3_Membership ==
  (IsInit /\ phase = "Loaded")
    => LET a == op.args
           all == TableNames(Canonical(a))
       IN /\ station.parent_station = Canonical(a)
          /\ Range(station.lfaa_names) =
               IF IsSub(a) /\ a.lfaa_list.given
               THEN { n \in Range(all) :
                        \E q \in Range(Split(a.lfaa_list.text)) : GlobMatch(q, n) }
               ELSE Range(all)
          /\ Cardinality(Range(station.lfaa_names)) = Len(station.lfaa_names)
          /\ Range(station.lfaa_names) \subseteq Range(all)
          /\ Len(station.lfaa_names) = Len(station.lfaa_enu)
          /\ ColumnNames(station.coordinates) = station.lfaa_names

C3_Witness ==
  /\ IsInit /\ phase = "Loaded" /\ IsSub(op.args)
  /\ op.args.lfaa_list.given
  /\ op.args.lfaa_list.text = Join(<<A1, B1>>)
  /\ Range(station.lfaa_names) = {A1, B1}
  /\ Len(station.lfaa_enu) = 2

(* C4 (as stated): the member order is the catalogue order for a Full station
   and an unfiltered selection and lexicographic for a Sub station built from
   a pattern list; the queries return names in member order. *)
C4_FilteredIsLexicographic ==
  /\ (IsInit /\ phase = "Loaded")
       => station.lfaa_names =
            IF IsSub(op.args) /\ op.args.lfaa_list.given
            THEN SortedList(Range(station.lfaa_names))
            ELSE TableNames(Canonical(op.args))
  /\ (op.name \in {"filter_lfaa_by_distance", "get_neighbour_lfaa"} /\ err = NoErr)
       => names_out = Join(InOrderOf(station.lfaa_names, NamesIn(names_out)))

(* C4 (amended): the member order is always the row order of the parent's
   table, also for a Sub station built from a pattern list, and the queries
   return names in that order, whatever the distances are. *)
C4_CatalogOrder ==
  /\ phase = "Loaded"
       => station.lfaa_names =
            InOrderOf(TableNames(station.parent_station), Range(station.lfaa_names))
  /\ (op.name \in {"filter_lfaa_by_distance", "get_neighbour_lfaa"} /\ err = NoErr)
       => names_out =
            Join(InOrderOf(TableNames(station.parent_station), NamesIn(names_out)))

C4_Witness ==
  /\ op.name = "filter_lfaa_by_distance" /\ err = NoErr
  /\ station.station_type = "substation"
  /\ Len(station.lfaa_names) = 2
  /\ names_out = Join(station.lfaa_names)
  /\ station.lfaa_names # SortedList(Range(station.lfaa_names))

(* C5: a Sub station does not depend on the order or the repetition of the
   patterns in its list, and building it again from its own member names
   gives the same station. *)
C5_OrderIndependent ==
  (IsInit /\ phase = "Loaded" /\ IsSub(op.args) /\ op.args.lfaa_list.given)
    => LET a == op.args
           ps == Range(Split(a.lfaa_list.text))
           lists == UNION { { l \in [1..n -> ps] : Range(l) = ps }
                            : n \in 1..(MaxPatterns + 1) }
           again(text) ==
             LowStation_init([a EXCEPT !.lfaa_list.text = text], tables, filters, TRUE)
       IN /\ \A l \in lists :
               again(Join(l)).err = NoErr /\ again(Join(l)).station = station
          /\ again(Join(station.lfaa_names)).err = NoErr
          /\ again(Join(station.lfaa_names)).station = station

C5_Witness ==
  /\ IsInit /\ phase = "Loaded" /\ IsSub(op.args)
  /\ op.args.lfaa_list.given
  /\ op.args.lfaa_list.text = Join(<<B1, <<"A", "*">> >>)
  /\ Len(station.lfaa_names) = 3

(* C6: the radius filter keeps a member iff its planar distance d from the
   centre satisfies d < r (d > r when inverted); the two results are
   disjoint and a member at exactly d = r is in neither. *)
C6_StrictBothModes ==
  (op.name = "filter_lfaa_by_distance" /\ LengthOk(op.distance))
    => LET r == Metres(op.distance)
           d2(i) == station.lfaa_enu[i][1] * station.lfaa_enu[i][1]
                      + station.lfaa_enu[i][2] * station.lfaa_enu[i][2]
           other == filter_lfaa_by_distance(station, op.distance, ~ op.invert)
       IN /\ err = NoErr
          /\ \A i \in 1..Len(station.lfaa_names) :
               /\ station.lfaa_names[i] \in NamesIn(names_out)
                    <=> IF op.invert THEN r < 0 \/ d2(i) > r * r
                                     ELSE r > 0 /\ d2(i) < r * r
               /\ (r >= 0 /\ d2(i) = r * r)
                    => /\ station.lfaa_names[i] \notin NamesIn(names_out)
                       /\ station.lfaa_names[i] \notin NamesIn(other.out)
          /\ NamesIn(names_out) \subseteq Range(station.lfaa_names)
          /\ NamesIn(names_out) \cap NamesIn(other.out) = {}

C6_Witness ==
  /\ op.name = "filter_lfaa_by_distance" /\ op.invert /\ err = NoErr
  /\ ~ op.distance.quantity /\ op.distance.value = 1
  /\ \E i \in 1..Len(station.lfaa_names) :
       /\ station.lfaa_enu[i][1] * station.lfaa_enu[i][1]
            + station.lfaa_enu[i][2] * station.lfaa_enu[i][2] = 1
       /\ station.lfaa_enu[i][3] # 0
       /\ station.lfaa_names[i] \notin NamesIn(names_out)
  /\ names_out # <<>>

(* C7: for a member n and a radius r > 0, get_neighbour_lfaa(n, r) holds n
   and exactly the members whose planar distance from n is less than r. *)
C7_NeighboursOfMember ==
  (/\ op.name = "get_neighbour_lfaa" /\ LengthOk(op.distance)
   /\ Metres(op.distance) > 0
   /\ op.ref_lfaa \in Range(station.lfaa_names))
    => LET r == Metres(op.distance)
           k == IndexOf(station.lfaa_names, op.ref_lfaa)
           d2(i) == (station.lfaa_enu[i][1] - station.lfaa_enu[k][1])
                      * (station.lfaa_enu[i][1] - station.lfaa_enu[k][1])
                    + (station.lfaa_enu[i][2] - station.lfaa_enu[k][2])
                      * (station.lfaa_enu[i][2] - station.lfaa_enu[k][2])
       IN /\ err = NoErr
          /\ op.ref_lfaa \in NamesIn(names_out)
          /\ NamesIn(names_out) \subseteq Range(station.lfaa_names)
          /\ \A i \in 1..Len(station.lfaa_names) :
               station.lfaa_names[i] \in NamesIn(names_out) <=> d2(i) < r * r

C7_Witness ==
  /\ op.name = "get_neighbour_lfaa" /\ err = NoErr
  /\ op.distance = Bare(1)
  /\ Len(station.lfaa_names) = 3
  /\ names_out = op.ref_lfaa

(* C8: a query naming an element that is not a member fails with
   UnknownAntenna and returns nothing; get_lfaa_coordinates with members
   only returns one coordinate per requested name, in request order. *)
C8_NonMemberFails ==
  /\ (/\ op.name = "get_neighbour_lfaa" /\ LengthOk(op.distance)
      /\ op.ref_lfaa \notin Range(station.lfaa_names))
       => (err.kind = "UnknownAntenna" /\ names_out = <<>>)
  /\ op.name = "get_lfaa_coordinates"
       => LET req == Split(op.lfaa_names)
          IN IF \E i \in 1..Len(req) : req[i] \notin Range(station.lfaa_names)
             THEN err.kind = "UnknownAntenna" /\ coords_out = <<>>
             ELSE /\ err = NoErr
                  /\ coords_out =
                       [i \in 1..Len(req) |->
                          << station.lfaa_xyz[IndexOf(station.lfaa_names, req[i])] >>]

(* C9: a distance whose unit is not a length makes filter_lfaa_by_distance
   and get_neighbour_lfaa fail with IncompatibleUnit, whatever the other
   arguments are, with no names returned and the station untouched; a bare
   number or a length never raises IncompatibleUnit. *)
C9_IncompatibleUnit ==
  [][ op'.name \in {"filter_lfaa_by_distance", "get_neighbour_lfaa"}
        => /\ station' = station
           /\ phase' = phase
           /\ IF LengthOk(op'.distance)
              THEN err'.kind # "IncompatibleUnit"
              ELSE err'.kind = "IncompatibleUnit" /\ names_out' = <<>> ]_vars

C9_Witness ==
  /\ op.name = "get_neighbour_lfaa"
  /\ op.distance.quantity /\ op.distance.unit = "s"
  /\ op.ref_lfaa \notin Range(station.lfaa_names)
  /\ err.kind = "IncompatibleUnit"
  /\ names_out = <<>>

(* C10: constructions running concurrently see the process-wide state they
   see when running alone, build the stations a sequential construction
   builds, and leave the process-wide state as they found it. *)
C10_NoSharedMutableState ==
  /\ \A t \in Threads :
       tpc[t] \in {"resetwarnings", "done"}
         => seen[t] = filterwarnings(filters0, IgnoreAstropy)
  /\ \A t \in Threads :
       tpc[t] = "done"
         => tstation[t] = LowStation_init(targs[t], tables, filters0, TRUE).station
  /\ (\A t \in Threads : tpc[t] \in {"done", "failed"}) => filters = filters0

====
